---- MODULE Spec2Model ----
(***************************************************************************)
(* Model of the jDuel trivia backend: the room store, the connection       *)
(* registry, the timer service, the game rules and the orchestrator that   *)
(* ties them together, as they run on one asyncio event loop.              *)
(*                                                                         *)
(* Every handler runs without interruption up to an `await` that really    *)
(* suspends.  The only such points are the channel sends of a broadcast    *)
(* (ConnectionManager.broadcast, WebSocketRoomCloser.close_room), the      *)
(* `await ws.accept()` of a new channel and the sleep of a timer task.     *)
(* A handler is therefore one action up to its first send, and one more    *)
(* action (the Resume... actions) for what it does after the broadcast.    *)
(***************************************************************************)
EXTENDS Integers, Sequences, FiniteSets, TLC

\* ------------------------------------------------------------------ bounds
Codes == {"R1", "R2", "LONG01"} \* room codes the generator can produce
LongCodes == {"LONG01"}        \* those of six characters, the others have four
Players == {"A", "B"}          \* player identifiers
Chans == {1, 2}                \* channel handles a player can open
NumQuestions == 2              \* questions the provider returns for a tier
MaxSuspended == 1              \* coroutines suspended at a slow await at once
MaxAttempts == 3               \* draws of a four-character code (100 in the code)

\* --------------------------------------------------------------- constants
MAX_SCORE_PER_QUESTION == 1000

Classes == {"question", "results", "game_over"}
Answers == {"ok", "bad"}       \* submitted texts; "ok" is the canonical answer
Difficulties == {"enjoyer", "master", "beast"}   \* DIFFICULTY_RANGES keys
\* texts no handler is called for: not JSON ("{"), JSON that is not an object
\* ("[]", "null", "1"), a known type whose fields fail validation, a type
\* that handle_websocket has no branch for
BadKinds == {"not_json", "not_object", "invalid", "unknown_type"}
NumWrongAnswers == 3           \* wrong_answer_1 .. wrong_answer_3 of a question

VARIABLES
    rooms,      \* RoomRepository._rooms: code -> Room, or a deleted marker
    timers,     \* TimerService: the three dicts code -> task (0: no key)
    tasks,      \* the asyncio tasks created by the timer service, named
                \* <<class, code, n>>; the dict of the class holds n
    sessions    \* the handle_websocket coroutine of every channel

vars == <<rooms, timers, tasks, sessions>>

\* ----------------------------------------------------------------- helpers
EmptyFn == [x \in {} |-> 0]

Put(f, k, v) == [x \in (DOMAIN f) \cup {k} |-> IF x = k THEN v ELSE f[x]]

Restrict(f, S) == [x \in (DOMAIN f) \cap S |-> f[x]]

RECURSIVE Pow2(_)
Pow2(n) == IF n <= 0 THEN 1 ELSE 2 * Pow2(n - 1)

\* A room that is not in the store.  The connections dict of the Room object
\* that was deleted stays reachable from broadcasts that are still iterating
\* over it, so its key set is kept.
NoRoom(conns) == [status |-> "deleted", connections |-> conns]

Exists(c) == rooms[c].status # "deleted"

\* Wall-clock instants (question_start_time, results_start_time, finish_time)
\* are not part of the state: the one decision taken on them, whether an
\* answer arrives after QUESTION_TIME_MS, is an input of ProcessAnswer.
RoundState ==
    [answered_players |-> {},
     player_answers |-> EmptyFn,
     correct_players |-> {},
     question_points |-> EmptyFn,
     shuffled_options |-> << >>]      \* << >>: None, no order cached

RoomConfig == [multiple_choice_enabled |-> FALSE, difficulty |-> "enjoyer"]

\* QuestionProvider.get_questions(count): question ids 1..n
GetQuestions == [i \in 1..NumQuestions |-> i]

\* QuestionProvider.get_questions_by_difficulty: the database holds questions
\* of tiers 1..3 only, so the "beast" range (4, 5) yields nothing.  The rows
\* of the "master" range (ids above NumQuestions) lack a wrong answer.
GetQuestionsByDifficulty(difficulty) ==
    IF difficulty = "beast" THEN << >>
    ELSE IF difficulty = "master"
    THEN [i \in 1..NumQuestions |-> NumQuestions + i]
    ELSE [i \in 1..NumQuestions |-> i]

Room(questions) ==
    [questions |-> questions,
     players |-> {},
     scores |-> EmptyFn,
     host_id |-> "none",
     connections |-> EmptyFn,
     status |-> "waiting",
     question_index |-> 0,
     config |-> RoomConfig,
     current_round |-> RoundState,
     session_tokens |-> EmptyFn]

Idle == [pc |-> "idle", size0 |-> 0]
Gone == [pc |-> "none", size0 |-> 0]
Sending(op, n) == [pc |-> op, size0 |-> n]

\* program counters of a session suspended at a send of a broadcast
\* ("tail_send": the broadcast is the last statement of the handler)
SendPcs == {"connect_send", "start_send", "tail_send", "disconnect_send"}

Size(c, rm) == Cardinality(DOMAIN rm[c].connections)

\* ------------------------------------------------------------ game service
\* AnswerService.is_correct(answer, current_question.answer)
IsCorrect(answer) == answer = "ok"

\* GameService._calculate_score
CalculateScore(correct_answer_count) ==
    IF correct_answer_count < 0 THEN 0
    ELSE MAX_SCORE_PER_QUESTION \div Pow2(correct_answer_count)

\* GameService.process_answer raises IndexError at
\* room.questions[room.question_index] or KeyError at room.scores[player_id]
AnswerRaises(room, p, answer, late) ==
    /\ p \notin room.current_round.answered_players
    /\ \/ room.question_index >= Len(room.questions)
       \/ IsCorrect(answer) /\ ~late /\ p \notin DOMAIN room.scores

\* the value GameService.process_answer returns (when it does not raise)
ProcessAnswerReturns(room, p, answer) ==
    IF p \in room.current_round.answered_players THEN FALSE
    ELSE IsCorrect(answer)

\* process_answer without the duplicate check
ProcessAnswer_NoGuard(room, p, answer, late) ==
    LET rd == room.current_round
        rd1 == [rd EXCEPT !.answered_players = @ \cup {p},
                          !.player_answers = Put(@, p, answer)]
        correct == IsCorrect(answer)
        rd2 == IF correct THEN [rd1 EXCEPT !.correct_players = @ \cup {p}]
               ELSE rd1
        score == CalculateScore(Cardinality(rd2.correct_players) - 1)
    IN IF room.question_index >= Len(room.questions)
       THEN [room EXCEPT !.current_round = rd1]
       ELSE IF correct /\ ~late /\ p \notin DOMAIN room.scores
       THEN [room EXCEPT !.current_round = rd2]
       ELSE IF correct /\ ~late
       THEN [room EXCEPT
               !.current_round = [rd2 EXCEPT !.question_points = Put(@, p, score)],
               !.scores = [@ EXCEPT ![p] = @ + score]]
       ELSE [room EXCEPT
               !.current_round = [rd2 EXCEPT !.question_points = Put(@, p, 0)]]

\* process_answer without the check of the elapsed time
ProcessAnswer_NoDeadline(room, p, answer, late) ==
    LET rd == room.current_round IN
    IF p \in rd.answered_players THEN room
    ELSE
      LET rd1 == [rd EXCEPT !.answered_players = @ \cup {p},
                            !.player_answers = Put(@, p, answer)]
          correct == IsCorrect(answer)
          rd2 == IF correct THEN [rd1 EXCEPT !.correct_players = @ \cup {p}]
                 ELSE rd1
          score == CalculateScore(Cardinality(rd2.correct_players) - 1)
      IN IF room.question_index >= Len(room.questions)
         THEN [room EXCEPT !.current_round = rd1]
         ELSE IF correct /\ p \notin DOMAIN room.scores
         THEN [room EXCEPT !.current_round = rd2]
         ELSE IF correct
         THEN [room EXCEPT
                 !.current_round = [rd2 EXCEPT !.question_points = Put(@, p, score)],
                 !.scores = [@ EXCEPT ![p] = @ + score]]
         ELSE [room EXCEPT
                 !.current_round = [rd2 EXCEPT !.question_points = Put(@, p, 0)]]

\* GameService.process_answer; late: elapsed_ms > QUESTION_TIME_MS.  When it
\* raises, the room keeps what was written before the failing line.
ProcessAnswer(room, p, answer, late) ==
    LET rd == room.current_round IN
    IF p \in rd.answered_players THEN room
    ELSE
      LET rd1 == [rd EXCEPT !.answered_players = @ \cup {p},
                            !.player_answers = Put(@, p, answer)]
          correct == IsCorrect(answer)
          rd2 == IF correct THEN [rd1 EXCEPT !.correct_players = @ \cup {p}]
                 ELSE rd1
          score == CalculateScore(Cardinality(rd2.correct_players) - 1)
      IN IF room.question_index >= Len(room.questions)
         THEN [room EXCEPT !.current_round = rd1]
         ELSE IF correct /\ ~late /\ p \notin DOMAIN room.scores
         THEN [room EXCEPT !.current_round = rd2]
         ELSE IF correct /\ ~late
         THEN [room EXCEPT
                 !.current_round = [rd2 EXCEPT !.question_points = Put(@, p, score)],
                 !.scores = [@ EXCEPT ![p] = @ + score]]
         ELSE [room EXCEPT
                 !.current_round = [rd2 EXCEPT !.question_points = Put(@, p, 0)]]

\* GameService.all_players_answered
AllPlayersAnswered(room) ==
    Cardinality(room.current_round.answered_players) = Cardinality(room.players)

\* advance_question that ends the game one advance late (> for >=)
AdvanceQuestion_Late(room) ==
    LET i == room.question_index + 1
        rd == [room.current_round EXCEPT !.answered_players = {},
                                         !.player_answers = EmptyFn,
                                         !.correct_players = {},
                                         !.question_points = EmptyFn]
    IN IF i > Len(room.questions)
       THEN [room EXCEPT !.question_index = i, !.current_round = rd,
                         !.status = "finished"]
       ELSE [room EXCEPT !.question_index = i, !.current_round = rd,
                         !.status = "playing"]

\* GameService.advance_question; has_next is (result.status = "playing")
AdvanceQuestion(room) ==
    LET i == room.question_index + 1
        rd == [room.current_round EXCEPT !.answered_players = {},
                                         !.player_answers = EmptyFn,
                                         !.correct_players = {},
                                         !.question_points = EmptyFn]
    IN IF i >= Len(room.questions)
       THEN [room EXCEPT !.question_index = i, !.current_round = rd,
                         !.status = "finished"]
       ELSE [room EXCEPT !.question_index = i, !.current_round = rd,
                         !.status = "playing"]

\* GameService.start_game
StartGame(room) ==
    [room EXCEPT !.status = "playing",
                 !.question_index = 0,
                 !.current_round = [@ EXCEPT !.answered_players = {},
                                             !.player_answers = EmptyFn],
                 !.scores = [q \in DOMAIN @ |-> 0]]

\* GameService.show_results
ShowResults(room) ==
    [room EXCEPT !.status = "results"]

\* resetToLobby that keeps the players without a channel
ResetToLobby_KeepGhosts(room) ==
    [room EXCEPT !.status = "waiting",
                 !.question_index = 0,
                 !.questions = << >>,
                 !.scores = [q \in DOMAIN @ |-> 0],
                 !.current_round = RoundState]

\* resetToLobby of the rules engine
ResetToLobby(room) ==
    LET keep == room.players \cap DOMAIN room.connections IN
    [room EXCEPT !.status = "waiting",
                 !.question_index = 0,
                 !.questions = << >>,
                 !.players = keep,
                 !.scores = [q \in keep |-> 0],
                 !.current_round = RoundState]

\* ----------------------------------------------------------- state builder
\* Question.answer and Question.wrong_answers of the question with id q
Answer(q) == <<q, 0>>

\* (None, here << >>, when the row lacks one of its wrong answers)
WrongAnswers(q) ==
    IF q <= NumQuestions THEN [k \in 1..NumWrongAnswers |-> <<q, k>>] ELSE << >>

\* the orders random.shuffle can leave a list in
Shuffle(options) ==
    {[i \in DOMAIN options |-> options[f[i]]] : f \in Permutations(DOMAIN options)}

\* build_room_state that shuffles the options anew at every call
BuildRoomState_Reshuffle(room) ==
    IF room.status # "playing" \/ room.question_index >= Len(room.questions)
    THEN {[room |-> room, options |-> << >>]}
    ELSE LET q == room.questions[room.question_index + 1] IN
         IF room.config.multiple_choice_enabled /\ Len(WrongAnswers(q)) > 0
         THEN {[room |-> [room EXCEPT !.current_round.shuffled_options = o],
                options |-> o] : o \in Shuffle(<<Answer(q)>> \o WrongAnswers(q))}
         ELSE {[room |-> room, options |-> << >>]}

\* StateBuilder.build_room_state: the results a call can have, each the room
\* as the call leaves it and currentQuestion.options of the snapshot
\* (<< >>: None).  Of the snapshot only the options depend on more than the
\* room's fields.
BuildRoomState(room) ==
    IF room.status # "playing" \/ room.question_index >= Len(room.questions)
    THEN {[room |-> room, options |-> << >>]}
    ELSE LET q == room.questions[room.question_index + 1] IN
         IF room.config.multiple_choice_enabled /\ Len(WrongAnswers(q)) > 0
         THEN IF room.current_round.shuffled_options = << >>
              THEN {[room |-> [room EXCEPT !.current_round.shuffled_options = o],
                     options |-> o] :
                       o \in Shuffle(<<Answer(q)>> \o WrongAnswers(q))}
              ELSE {[room |-> room,
                     options |-> room.current_round.shuffled_options]}
         ELSE {[room |-> room, options |-> << >>]}

\* GameOrchestrator._broadcast_room_state up to the first send: the stores
\* the build of the snapshot of room c can leave
Built(rm, c) ==
    IF rm[c].status = "deleted" THEN {rm}
    ELSE {[rm EXCEPT ![c] = b.room] : b \in BuildRoomState(rm[c])}

\* ------------------------------------------------------------- room store
\* RoomRepository._generate_unique_room_code: the codes a call can return
\* with `attempts` draws of four characters left.  A draw that is not in
\* the store is returned, one that is in the store is drawn again, and after
\* the last one six characters are drawn and returned as they are.
RECURSIVE GenerateUniqueRoomCode(_, _)
GenerateUniqueRoomCode(rm, attempts) ==
    LET taken == {c \in Codes \ LongCodes : rm[c].status # "deleted"} IN
    IF attempts = 0 THEN LongCodes
    ELSE ((Codes \ LongCodes) \ taken)
         \cup (IF taken # {} THEN GenerateUniqueRoomCode(rm, attempts - 1)
               ELSE {})

\* the first registrant becomes the host
HostAfterRegister(room, p) == IF room.host_id = "none" THEN p ELSE room.host_id

\* register_player that gives the new player no score
RegisterPlayer_NoScore(room, p) ==
    [room EXCEPT !.players = @ \cup {p},
                 !.host_id = HostAfterRegister(room, p)]

\* RoomRepository.register_player (room found, p not registered)
RegisterPlayer(room, p) ==
    [room EXCEPT !.players = @ \cup {p},
                 !.scores = Put(@, p, 0),
                 !.host_id = HostAfterRegister(room, p)]

\* RoomManager.load_questions_by_difficulty
LoadQuestionsByDifficulty(room) ==
    [room EXCEPT !.questions = GetQuestionsByDifficulty(room.config.difficulty)]

\* ConnectionManager.attach (room found, p registered)
Attach(room, p, ch) == [room EXCEPT !.connections = Put(@, p, ch)]

\* attach that does not ask whether the player is registered
TryAttach_Unregistered(rm, c, p, ch) ==
    IF rm[c].status = "deleted" THEN [rooms |-> rm, ok |-> FALSE]
    ELSE [rooms |-> [rm EXCEPT ![c] = Attach(@, p, ch)], ok |-> TRUE]

\* ConnectionManager.attach with its two refusals: the store it leaves and
\* the value it returns
TryAttach(rm, c, p, ch) ==
    IF rm[c].status = "deleted" \/ p \notin rm[c].players
    THEN [rooms |-> rm, ok |-> FALSE]
    ELSE [rooms |-> [rm EXCEPT ![c] = Attach(@, p, ch)], ok |-> TRUE]

\* ConnectionManager.detach
Detach(room, p) ==
    [room EXCEPT !.connections = Restrict(@, (DOMAIN @) \ {p})]

\* ConnectionManager.broadcast when ws.send_json raises for the channels of
\* the players in failing: the exception is logged and the loop goes on.
\* delivered: the players whose channel got the state.
Broadcast(room, failing) ==
    [room |-> room,
     delivered |-> (DOMAIN room.connections) \ failing,
     raised |-> FALSE]

\* ConnectionManager.broadcast suspends at a send when there is a channel
\* and the send is slow (may)
Suspends(rm, c, may) ==
    may /\ rm[c].status # "deleted" /\ DOMAIN rm[c].connections # {}

\* ----------------------------------------------------------- timer service
\* The state of the timer service: its three dicts and the tasks they hold.
TimerState(tm, tk) == [timers |-> tm, tasks |-> tk]

\* a task that has not ended: asleep, running its callback, or suspended in
\* its callback at a send
Live(task) == task.pc \in {"sleeping", "running", "sending", "closing"}

\* asyncio.create_task: the new task of a class and code gets the least
\* number no task of that class and code has
FreshTask(tk, cls, c) ==
    CHOOSE n \in 1..(Cardinality(DOMAIN tk) + 1) :
        /\ <<cls, c, n>> \notin DOMAIN tk
        /\ \A u \in 1..(n - 1) : <<cls, c, u>> \in DOMAIN tk

\* A task that has ended and that no dict of the timer service holds is
\* unreachable and is dropped from the state, which frees its name.
Forget(ts) ==
    LET held == {<<k, c, ts.timers[k][c]>> : k \in Classes, c \in Codes}
    IN [ts EXCEPT !.tasks =
          Restrict(@, {t \in DOMAIN @ : Live(@[t]) \/ t \in held})]

\* asyncio.Task.cancel(): CancelledError is thrown into the coroutine at the
\* await it is suspended at.  _run_timer catches it, so a task asleep never
\* calls its callback, and a callback suspended at a send stops right there
\* (broadcast and close_room only catch Exception).  A finished task ignores
\* cancel(), and a task that cancels itself while it runs its callback goes
\* on to the next await, which close_room does not have.
CancelTask(task) ==
    IF task.pc = "sleeping" THEN [task EXCEPT !.pc = "cancelled"]
    ELSE IF task.pc \in {"sending", "closing"}
         THEN [task EXCEPT !.pc = "aborted", !.size0 = 0, !.has_next = FALSE]
    ELSE task

\* _cancel_timer that deletes the key and leaves the task running
CancelTimer_KeyOnly(ts, cls, c) ==
    [ts EXCEPT !.timers[cls][c] = 0]

\* TimerService._cancel_timer(timer_dict, room_id)
CancelTimer(ts, cls, c) ==
    LET n == ts.timers[cls][c] IN
    IF n # 0
    THEN Forget([timers |-> [ts.timers EXCEPT ![cls][c] = 0],
                 tasks |-> [ts.tasks EXCEPT ![<<cls, c, n>>] = CancelTask(@)]])
    ELSE ts

\* start_..._timer that stores the new task over the old one, uncancelled
StartTimer_NoCancel(ts, cls, c) ==
    LET task == [pc |-> "sleeping", size0 |-> 0, has_next |-> FALSE]
        n == FreshTask(ts.tasks, cls, c)
    IN [timers |-> [ts.timers EXCEPT ![cls][c] = n],
        tasks |-> Put(ts.tasks, <<cls, c, n>>, task)]

\* TimerService.start_question_timer / start_results_timer /
\* start_game_over_timer: cancel the class's task, create and store a new one
StartTimer(ts, cls, c) ==
    LET ts1 == CancelTimer(ts, cls, c)
        task == [pc |-> "sleeping", size0 |-> 0, has_next |-> FALSE]
        n == FreshTask(ts1.tasks, cls, c)
    IN [timers |-> [ts1.timers EXCEPT ![cls][c] = n],
        tasks |-> Put(ts1.tasks, <<cls, c, n>>, task)]

\* cancel_all_timers_for_room that empties the three dicts
CancelAllTimersForRoom_Every(ts, c) ==
    Forget([timers |-> [k \in Classes |-> [d \in Codes |-> 0]],
            tasks |-> [t \in DOMAIN ts.tasks |->
                         IF ts.timers[t[1]][t[2]] = t[3]
                         THEN CancelTask(ts.tasks[t]) ELSE ts.tasks[t]]])

\* TimerService.cancel_all_timers_for_room
CancelAllTimersForRoom(ts, c) ==
    CancelTimer(CancelTimer(CancelTimer(ts, "question", c), "results", c),
                "game_over", c)

\* ------------------------------------------------------------ orchestrator
\* Results of a handler up to its broadcast: the store, the timer state and
\* whether a ROOM_STATE broadcast is made (bcast), the event accepted (ok).
Outcome(rm, ts, bcast, ok) ==
    [rooms |-> rm, ts |-> ts, bcast |-> bcast, ok |-> ok, raised |-> FALSE]

\* the handler raised an exception after changing the store to rm
Raised(rm, ts) ==
    [rooms |-> rm, ts |-> ts, bcast |-> FALSE, ok |-> TRUE, raised |-> TRUE]

\* GameOrchestrator._transition_to_results, up to its broadcast
TransitionToResults(rm, ts, c) ==
    IF rm[c].status # "deleted"
    THEN Outcome([rm EXCEPT ![c] = ShowResults(@)],
                 StartTimer(ts, "results", c), TRUE, TRUE)
    ELSE Outcome(rm, ts, FALSE, TRUE)

\* handle_start_game that starts the game whatever the provider returned
HandleStartGame_NoQuestions(rm, ts, c, p) ==
    IF rm[c].status = "deleted" THEN Outcome(rm, ts, FALSE, FALSE)
    ELSE IF p # rm[c].host_id THEN Outcome(rm, ts, FALSE, FALSE)
    ELSE Outcome([rm EXCEPT ![c] = StartGame(LoadQuestionsByDifficulty(@))],
                 ts, TRUE, TRUE)

\* GameOrchestrator.handle_start_game, up to its broadcast
HandleStartGame(rm, ts, c, p) ==
    IF rm[c].status = "deleted" THEN Outcome(rm, ts, FALSE, FALSE)
    ELSE IF p # rm[c].host_id THEN Outcome(rm, ts, FALSE, FALSE)
    ELSE LET r1 == LoadQuestionsByDifficulty(rm[c]) IN
         IF Len(r1.questions) = 0
         THEN Outcome([rm EXCEPT ![c] = r1], ts, FALSE, FALSE)
         ELSE Outcome([rm EXCEPT ![c] = StartGame(r1)], ts, TRUE, TRUE)

\* handle_answer that does not look at the status
HandleAnswer_AnyStatus(rm, ts, c, p, answer, late) ==
    IF rm[c].status = "deleted" THEN Outcome(rm, ts, FALSE, FALSE)
    ELSE LET r1 == ProcessAnswer(rm[c], p, answer, late)
             rm1 == [rm EXCEPT ![c] = r1]
         IN IF AnswerRaises(rm[c], p, answer, late) THEN Raised(rm1, ts)
            ELSE IF AllPlayersAnswered(r1)
            THEN TransitionToResults(rm1, CancelAllTimersForRoom(ts, c), c)
            ELSE Outcome(rm1, ts, FALSE, TRUE)

\* handle_answer that goes to results without cancelling the timers
HandleAnswer_NoCancel(rm, ts, c, p, answer, late) ==
    IF rm[c].status = "deleted" THEN Outcome(rm, ts, FALSE, FALSE)
    ELSE IF rm[c].status # "playing" THEN Outcome(rm, ts, FALSE, FALSE)
    ELSE LET r1 == ProcessAnswer(rm[c], p, answer, late)
             rm1 == [rm EXCEPT ![c] = r1]
         IN IF AnswerRaises(rm[c], p, answer, late) THEN Raised(rm1, ts)
            ELSE IF AllPlayersAnswered(r1)
            THEN TransitionToResults(rm1, ts, c)
            ELSE Outcome(rm1, ts, FALSE, TRUE)

\* GameOrchestrator.handle_answer, up to its broadcast
HandleAnswer(rm, ts, c, p, answer, late) ==
    IF rm[c].status = "deleted" THEN Outcome(rm, ts, FALSE, FALSE)
    ELSE IF rm[c].status # "playing" THEN Outcome(rm, ts, FALSE, FALSE)
    ELSE LET r1 == ProcessAnswer(rm[c], p, answer, late)
             rm1 == [rm EXCEPT ![c] = r1]
         IN IF AnswerRaises(rm[c], p, answer, late) THEN Raised(rm1, ts)
            ELSE IF AllPlayersAnswered(r1)
            THEN TransitionToResults(rm1, CancelAllTimersForRoom(ts, c), c)
            ELSE Outcome(rm1, ts, FALSE, TRUE)

\* handle_config_update that changes the config and tells nobody
HandleConfigUpdate_Silent(rm, ts, c, p, config_data) ==
    IF rm[c].status = "deleted" THEN Outcome(rm, ts, FALSE, FALSE)
    ELSE IF p # rm[c].host_id THEN Outcome(rm, ts, FALSE, FALSE)
    ELSE IF rm[c].status # "waiting" THEN Outcome(rm, ts, FALSE, FALSE)
    ELSE Outcome([rm EXCEPT ![c].config =
                    IF "difficulty" \in DOMAIN config_data
                       /\ config_data.difficulty \in Difficulties
                    THEN [@ EXCEPT !.difficulty = config_data.difficulty]
                    ELSE @],
                 ts, FALSE, TRUE)

\* handle_config_update that does not look at the status
HandleConfigUpdate_AnyStatus(rm, ts, c, p, config_data) ==
    IF rm[c].status = "deleted" THEN Outcome(rm, ts, FALSE, FALSE)
    ELSE IF p # rm[c].host_id THEN Outcome(rm, ts, FALSE, FALSE)
    ELSE LET cf0 == rm[c].config
             cf1 == IF "multipleChoiceEnabled" \in DOMAIN config_data
                    THEN [cf0 EXCEPT !.multiple_choice_enabled =
                                        config_data.multipleChoiceEnabled]
                    ELSE cf0
             cf2 == IF "difficulty" \in DOMAIN config_data
                       /\ config_data.difficulty \in Difficulties
                    THEN [cf1 EXCEPT !.difficulty = config_data.difficulty]
                    ELSE cf1
         IN Outcome([rm EXCEPT ![c].config = cf2], ts, TRUE, TRUE)

\* GameOrchestrator.handle_config_update, up to its broadcast
HandleConfigUpdate(rm, ts, c, p, config_data) ==
    IF rm[c].status = "deleted" THEN Outcome(rm, ts, FALSE, FALSE)
    ELSE IF p # rm[c].host_id THEN Outcome(rm, ts, FALSE, FALSE)
    ELSE IF rm[c].status # "waiting" THEN Outcome(rm, ts, FALSE, FALSE)
    ELSE LET cf0 == rm[c].config
             cf1 == IF "multipleChoiceEnabled" \in DOMAIN config_data
                    THEN [cf0 EXCEPT !.multiple_choice_enabled =
                                        config_data.multipleChoiceEnabled]
                    ELSE cf0
             cf2 == IF "difficulty" \in DOMAIN config_data
                       /\ config_data.difficulty \in Difficulties
                    THEN [cf1 EXCEPT !.difficulty = config_data.difficulty]
                    ELSE cf1
         IN Outcome([rm EXCEPT ![c].config = cf2], ts, TRUE, TRUE)

\* handle_play_again that resets the room whatever its status
HandlePlayAgain_AnyStatus(rm, ts, c, p) ==
    IF rm[c].status = "deleted" THEN Outcome(rm, ts, FALSE, FALSE)
    ELSE IF p # rm[c].host_id THEN Outcome(rm, ts, FALSE, FALSE)
    ELSE Outcome([rm EXCEPT ![c] = ResetToLobby(@)], ts, TRUE, TRUE)

\* handle_play_again: resetToLobby, then broadcast
HandlePlayAgain(rm, ts, c, p) ==
    IF rm[c].status = "deleted" THEN Outcome(rm, ts, FALSE, FALSE)
    ELSE IF p # rm[c].host_id THEN Outcome(rm, ts, FALSE, FALSE)
    ELSE IF rm[c].status # "finished" THEN Outcome(rm, ts, FALSE, FALSE)
    ELSE Outcome([rm EXCEPT ![c] = ResetToLobby(@)], ts, TRUE, TRUE)

\* handle_disconnect that deletes the empty room and leaves its timers
HandleDisconnect_NoCancel(rm, ts, c, p) ==
    IF rm[c].status = "deleted" THEN Outcome(rm, ts, FALSE, FALSE)
    ELSE LET r1 == Detach(rm[c], p) IN
         IF DOMAIN r1.connections = {}
         THEN Outcome([rm EXCEPT ![c] = NoRoom(EmptyFn)], ts, FALSE, TRUE)
         ELSE Outcome([rm EXCEPT ![c] = r1], ts, TRUE, TRUE)

\* handle_disconnect that also takes the player out of the room
HandleDisconnect_Unregister(rm, ts, c, p) ==
    IF rm[c].status = "deleted" THEN Outcome(rm, ts, FALSE, FALSE)
    ELSE LET r1 == Detach(rm[c], p)
             r2 == [r1 EXCEPT !.players = @ \ {p},
                              !.scores = Restrict(@, (DOMAIN @) \ {p})]
         IN IF DOMAIN r1.connections = {}
            THEN Outcome([rm EXCEPT ![c] = NoRoom(EmptyFn)],
                         CancelAllTimersForRoom(ts, c), FALSE, TRUE)
            ELSE Outcome([rm EXCEPT ![c] = r2], ts, TRUE, TRUE)

\* GameOrchestrator.handle_disconnect, up to its broadcast
HandleDisconnect(rm, ts, c, p) ==
    IF rm[c].status = "deleted" THEN Outcome(rm, ts, FALSE, FALSE)
    ELSE LET r1 == Detach(rm[c], p) IN
         IF DOMAIN r1.connections = {}
         THEN Outcome([rm EXCEPT ![c] = NoRoom(EmptyFn)],
                      CancelAllTimersForRoom(ts, c), FALSE, TRUE)
         ELSE Outcome([rm EXCEPT ![c] = r1], ts, TRUE, TRUE)

\* _on_question_timeout that does not look at the status
OnQuestionTimeout_NoCheck(rm, ts, c) ==
    TransitionToResults(rm, ts, c)

\* GameOrchestrator._on_question_timeout, up to its broadcast
OnQuestionTimeout(rm, ts, c) ==
    IF rm[c].status = "playing" THEN TransitionToResults(rm, ts, c)
    ELSE Outcome(rm, ts, FALSE, FALSE)

\* GameOrchestrator._on_results_timeout, up to its broadcast
OnResultsTimeout(rm, ts, c) ==
    IF rm[c].status # "results" THEN Outcome(rm, ts, FALSE, FALSE)
    ELSE Outcome([rm EXCEPT ![c] = AdvanceQuestion(@)], ts, TRUE, TRUE)

\* GameOrchestrator._on_results_timeout, after its broadcast
AfterResultsBroadcast(ts, c, has_next) ==
    IF has_next THEN StartTimer(ts, "question", c)
    ELSE StartTimer(ts, "game_over", c)

\* WebSocketRoomCloser.close_room, after its ROOM_CLOSED sends
CloseRoom(rm, ts, c) ==
    Outcome([rm EXCEPT ![c] = NoRoom(@.connections)],
            CancelAllTimersForRoom(ts, c), FALSE, TRUE)

Init ==
    /\ rooms = [c \in Codes |-> NoRoom(EmptyFn)]
    /\ timers = [k \in Classes |-> [c \in Codes |-> 0]]
    /\ tasks = EmptyFn
    /\ sessions = [s \in Codes \X Players \X Chans |-> Gone]

\* ----------------------------------------------------------------- actions
TS == TimerState(timers, tasks)

SetTimerState(ts) ==
    /\ timers' = Forget(ts).timers
    /\ tasks' = Forget(ts).tasks

\* the coroutines suspended at `await ws.accept()` or at a send
NumSuspended ==
    Cardinality({s \in DOMAIN sessions :
                   sessions[s].pc \in SendPcs \cup {"accepting"}})
    + Cardinality({t \in DOMAIN tasks : tasks[t].pc \in {"sending", "closing"}})

\* An await only suspends when the awaited call is slow; at most MaxSuspended
\* coroutines wait on a slow call at once.
MaySuspend == NumSuspended < MaxSuspended

\* task t runs its callback
Running(ts, t) == [ts EXCEPT !.tasks[t].pc = "running"]

Finished(task, pc) == [task EXCEPT !.pc = pc, !.size0 = 0, !.has_next = FALSE]

\* a channel handler or a timer task that still names code c
Leftover(c) ==
    \/ \E p \in Players, ch \in Chans : sessions[<<c, p, ch>>].pc # "none"
    \/ \E t \in DOMAIN tasks : t[2] = c

\* POST /api/rooms, RoomManager.create_room, RoomRepository.create.  The
\* generator draws a code again only after every channel handler and timer
\* task of the room that had it has ended.
CreateRoom(c) ==
    /\ c \in GenerateUniqueRoomCode(rooms, MaxAttempts)
    /\ ~Leftover(c)
    /\ rooms' = [rooms EXCEPT ![c] = Room(GetQuestions)]
    /\ UNCHANGED <<timers, tasks, sessions>>

\* the secret secrets.token_urlsafe issues to player p
Token(p) == <<"token", p>>

\* join_room that registers a new name whatever the status of the room
JoinRoom_AnyStatus(c, p, tok) ==
    LET r == rooms[c]
        reconnect == Exists(c) /\ p \in r.players
        accepted ==
            /\ Exists(c)
            /\ reconnect => /\ p \notin DOMAIN r.connections
                            /\ tok = "stored"
    IN /\ rooms' = IF accepted /\ ~reconnect
                   THEN [rooms EXCEPT ![c] =
                           [RegisterPlayer(r, p) EXCEPT
                              !.session_tokens = Put(@, p, Token(p))]]
                   ELSE rooms
       /\ UNCHANGED <<timers, tasks, sessions>>

\* POST /api/rooms/{room_id}/join with a sessionToken of
\* "none", "stored" (the one issued) or "forged"
JoinRoom(c, p, tok) ==
    LET r == rooms[c]
        reconnect == Exists(c) /\ p \in r.players
        accepted ==
            /\ Exists(c)
            /\ ~(r.status # "waiting" /\ p \notin r.players)
            /\ reconnect => /\ p \notin DOMAIN r.connections
                            /\ tok = "stored"
    IN /\ rooms' = IF accepted /\ ~reconnect
                   THEN [rooms EXCEPT ![c] =
                           [RegisterPlayer(r, p) EXCEPT
                              !.session_tokens = Put(@, p, Token(p))]]
                   ELSE rooms
       /\ UNCHANGED <<timers, tasks, sessions>>

\* handle_websocket up to `await ws.accept()`; when neither the accept nor
\* the sends of handle_connect are slow, up to the receive loop
WsOpen(c, p, ch) ==
    LET s == <<c, p, ch>>
        accepted == /\ Exists(c)
                    /\ p \in rooms[c].players
                    /\ p \notin DOMAIN rooms[c].connections
    IN /\ sessions[s].pc = "none"
       /\ sessions' = IF accepted
                      THEN [sessions EXCEPT ![s] =
                              IF MaySuspend THEN Sending("accepting", 0) ELSE Idle]
                      ELSE sessions
       /\ rooms' \in IF accepted /\ ~MaySuspend
                     THEN Built(TryAttach(rooms, c, p, ch).rooms, c)
                     ELSE {rooms}
       /\ UNCHANGED <<timers, tasks>>

\* GameOrchestrator.handle_connect, up to its broadcast
HandleConnect(c, p, ch) ==
    LET s == <<c, p, ch>>
        accepted == TryAttach(rooms, c, p, ch).ok
        rm1 == TryAttach(rooms, c, p, ch).rooms
    IN /\ sessions[s].pc = "accepting"
       /\ rooms' \in IF accepted THEN Built(rm1, c) ELSE {rooms}
       /\ sessions' = [sessions EXCEPT ![s] =
                         IF accepted THEN Sending("connect_send", Size(c, rm1))
                         ELSE Gone]
       /\ UNCHANGED <<timers, tasks>>

\* A handler of an idle session, up to its broadcast; when nothing is sent
\* the handler runs to its end in the same step.  An exception of the handler
\* reaches `except Exception` of handle_websocket, which calls
\* handle_disconnect.
SessionStep(c, p, ch, op, out0, send_pc) ==
    LET s == <<c, p, ch>>
        out == IF out0.raised THEN HandleDisconnect(out0.rooms, out0.ts, c, p)
               ELSE out0
        closes == out0.raised \/ op = "disconnect"
        suspends == out.bcast /\ Suspends(out.rooms, c, MaySuspend)
    IN /\ sessions[s].pc = "idle"
       /\ rooms' \in IF out.bcast THEN Built(out.rooms, c) ELSE {out.rooms}
       /\ sessions' = [sessions EXCEPT ![s] =
                         IF suspends
                         THEN Sending(IF closes THEN "disconnect_send" ELSE send_pc,
                                      Size(c, out.rooms))
                         ELSE IF closes THEN Gone ELSE Idle]
       /\ SetTimerState(IF op = "start" /\ out.ok /\ ~suspends
                        THEN StartTimer(out.ts, "question", c)
                        ELSE out.ts)

StartGameMsg(c, p, ch) ==
    SessionStep(c, p, ch, "start", HandleStartGame(rooms, TS, c, p), "start_send")

AnswerMsg(c, p, ch, answer, late) ==
    SessionStep(c, p, ch, "answer",
                HandleAnswer(rooms, TS, c, p, answer, late), "tail_send")

UpdateConfigMsg(c, p, ch, config_data) ==
    SessionStep(c, p, ch, "config",
                HandleConfigUpdate(rooms, TS, c, p, config_data), "tail_send")

PlayAgainMsg(c, p, ch) ==
    SessionStep(c, p, ch, "play_again",
                HandlePlayAgain(rooms, TS, c, p), "tail_send")

\* The receive loop of handle_websocket for a text of a kind in BadKinds.
\* json.loads raises JSONDecodeError, model_validate raises ValidationError
\* and the last branch takes an unknown type: each sends ERROR to the sender
\* and goes on to the next receive, unless the send raises (send_fails).
\* For JSON that is not an object, message.get("type") raises
\* AttributeError outside the inner try.
HandleBadText(rm, ts, kind, send_fails) ==
    IF kind = "not_object" \/ send_fails THEN Raised(rm, ts)
    ELSE Outcome(rm, ts, FALSE, FALSE)

BadMsg(c, p, ch, kind, send_fails) ==
    SessionStep(c, p, ch, "bad",
                HandleBadText(rooms, TS, kind, send_fails), "tail_send")

\* WebSocketDisconnect raised by receive_text
Disconnect(c, p, ch) ==
    SessionStep(c, p, ch, "disconnect",
                HandleDisconnect(rooms, TS, c, p), "disconnect_send")

\* The send a session is suspended at returns.  The `for` of broadcast then
\* asks the dict iterator for the next channel, which raises RuntimeError
\* when room.connections changed size since the loop began.  The error
\* leaves handle_connect and handle_disconnect uncaught; from the message
\* handlers it reaches `except Exception` of handle_websocket, which calls
\* handle_disconnect.
ResumeSession(c, p, ch) ==
    LET s == <<c, p, ch>>
        se == sessions[s]
        fails == Size(c, rooms) # se.size0
        out == HandleDisconnect(rooms, TS, c, p)
    IN /\ se.pc \in SendPcs
       /\ IF se.pc \in {"connect_send", "disconnect_send"}
          THEN /\ sessions' = [sessions EXCEPT ![s] =
                     IF se.pc = "connect_send" /\ ~fails THEN Idle ELSE Gone]
               /\ UNCHANGED <<rooms, timers, tasks>>
          ELSE IF ~fails
          THEN /\ sessions' = [sessions EXCEPT ![s] = Idle]
               /\ UNCHANGED rooms
               /\ SetTimerState(IF se.pc = "start_send"
                                THEN StartTimer(TS, "question", c) ELSE TS)
          ELSE /\ rooms' \in IF out.bcast THEN Built(out.rooms, c)
                             ELSE {out.rooms}
               /\ SetTimerState(out.ts)
               /\ sessions' = [sessions EXCEPT ![s] =
                     IF out.bcast /\ Suspends(out.rooms, c, TRUE)
                     THEN Sending("disconnect_send", Size(c, out.rooms))
                     ELSE Gone]

\* TimerService._run_timer: the sleep of task t is over and its callback runs
\* up to its broadcast
Fire(t) ==
    LET tk == tasks[t]
        cls == t[1]
        c == t[2]
        ts0 == Running(TS, t)
        out0 == IF cls = "question" THEN OnQuestionTimeout(rooms, ts0, c)
                ELSE IF cls = "results" THEN OnResultsTimeout(rooms, ts0, c)
                ELSE Outcome(rooms, ts0, Exists(c), Exists(c))
    IN
    \E rm1 \in IF cls # "game_over" /\ out0.bcast THEN Built(out0.rooms, c)
                ELSE {out0.rooms} :
    LET out == [out0 EXCEPT !.rooms = rm1]
        suspends == out.bcast /\ Suspends(out.rooms, c, MaySuspend)
        has_next == out.rooms[c].status = "playing"
        sent == IF cls = "results" /\ out.ok
                THEN Outcome(out.rooms,
                             AfterResultsBroadcast(out.ts, c, has_next), FALSE, TRUE)
                ELSE IF cls = "game_over" /\ out.ok
                THEN CloseRoom(out.rooms, out.ts, c)
                ELSE out
        fin == IF suspends THEN out ELSE sent
    IN /\ tk.pc = "sleeping"
       /\ rooms' = fin.rooms
       /\ SetTimerState(
            [fin.ts EXCEPT !.tasks[t] =
               IF suspends
               THEN [tk EXCEPT !.pc = IF cls = "game_over" THEN "closing"
                                       ELSE "sending",
                               !.size0 = Size(c, out.rooms),
                               !.has_next = cls = "results" /\ has_next]
               ELSE Finished(tk, "done")])
       /\ UNCHANGED sessions

\* The send a timer callback is suspended at returns.  A RuntimeError of the
\* dict iterator ends the task, since _run_timer only catches CancelledError.
\* close_room iterates over a copy and cannot fail that way.
ResumeTask(t) ==
    LET tk == tasks[t]
        cls == t[1]
        c == t[2]
        fails == tk.pc = "sending" /\ Size(c, rooms) # tk.size0
        ts0 == Running(TS, t)
        out == IF fails THEN Outcome(rooms, ts0, FALSE, FALSE)
               ELSE IF tk.pc = "closing" THEN CloseRoom(rooms, ts0, c)
               ELSE IF cls = "results"
               THEN Outcome(rooms, AfterResultsBroadcast(ts0, c, tk.has_next),
                            FALSE, TRUE)
               ELSE Outcome(rooms, ts0, FALSE, TRUE)
    IN /\ tk.pc \in {"sending", "closing"}
       /\ rooms' = out.rooms
       /\ SetTimerState([out.ts EXCEPT !.tasks[t] =
                           Finished(tk, IF fails THEN "failed" ELSE "done")])
       /\ UNCHANGED sessions

\* the rooms, channels and request fields of the main specification
SpecCodes == {"R1"}
SpecChans == {1}
\* player names are interchangeable: "A" is the one that registers first
FirstJoins(c, p) == p = "A" \/ (Exists(c) /\ rooms[c].host_id # "none")
SpecBadKinds == {"not_json", "not_object"}
SpecConfigs == {[difficulty |-> "beast"], [difficulty |-> "enjoyer"],
                [difficulty |-> "bogus"]}

Next ==
    \/ \E c \in SpecCodes : CreateRoom(c)
    \/ \E c \in SpecCodes, p \in Players, tok \in {"none", "stored", "forged"} :
          FirstJoins(c, p) /\ JoinRoom(c, p, tok)
    \/ \E c \in SpecCodes, p \in Players, ch \in SpecChans : WsOpen(c, p, ch)
    \/ \E c \in SpecCodes, p \in Players, ch \in SpecChans : HandleConnect(c, p, ch)
    \/ \E c \in SpecCodes, p \in Players, ch \in SpecChans : StartGameMsg(c, p, ch)
    \/ \E c \in SpecCodes, p \in Players, ch \in SpecChans,
          answer \in Answers, late \in BOOLEAN :
          AnswerMsg(c, p, ch, answer, late)
    \/ \E c \in SpecCodes, p \in Players, ch \in SpecChans,
          config_data \in SpecConfigs : UpdateConfigMsg(c, p, ch, config_data)
    \/ \E c \in SpecCodes, p \in Players, ch \in SpecChans : PlayAgainMsg(c, p, ch)
    \/ \E c \in SpecCodes, p \in Players, ch \in SpecChans, kind \in SpecBadKinds :
          BadMsg(c, p, ch, kind, FALSE)
    \/ \E c \in SpecCodes, p \in Players, ch \in SpecChans : Disconnect(c, p, ch)
    \/ \E c \in SpecCodes, p \in Players, ch \in SpecChans : ResumeSession(c, p, ch)
    \/ \E t \in DOMAIN tasks : Fire(t)
    \/ \E t \in DOMAIN tasks : ResumeTask(t)

Spec == Init /\ [][Next]_vars

\* Two parties and one identity.  The owner of identity "A" sends the join
\* requests without a token or with the stored one and opens channel
\* OwnerChan; a stranger, who was never issued the secret and can only send a
\* forged one, opens channel StrangerChan with the same room_id and player_id.
ConnPlayers == {"A"}
OwnerChan == 1
StrangerChan == 2

NextConn ==
    \/ \E c \in SpecCodes : CreateRoom(c)
    \/ \E c \in SpecCodes, p \in ConnPlayers, tok \in {"none", "stored", "forged"} :
          JoinRoom(c, p, tok)
    \/ \E c \in SpecCodes, p \in ConnPlayers, ch \in {OwnerChan, StrangerChan} :
          \/ WsOpen(c, p, ch)
          \/ HandleConnect(c, p, ch)
          \/ StartGameMsg(c, p, ch)
          \/ \E answer \in Answers, late \in BOOLEAN :
                AnswerMsg(c, p, ch, answer, late)
          \/ \E config_data \in SpecConfigs : UpdateConfigMsg(c, p, ch, config_data)
          \/ PlayAgainMsg(c, p, ch)
          \/ Disconnect(c, p, ch)
          \/ ResumeSession(c, p, ch)
    \/ \E t \in DOMAIN tasks : Fire(t)
    \/ \E t \in DOMAIN tasks : ResumeTask(t)

SpecConn == Init /\ [][NextConn]_vars

\* Two players and a second channel for the identity of the host: "A" has
\* channels OwnerChan and StrangerChan, "B" has OwnerChan.  Every game is
\* played with correct answers in time and the default config.
HostChans(p) == IF p = "A" THEN {OwnerChan, StrangerChan} ELSE {OwnerChan}

NextHost ==
    \/ \E c \in SpecCodes : CreateRoom(c)
    \/ \E c \in SpecCodes, p \in Players : FirstJoins(c, p) /\ JoinRoom(c, p, "none")
    \/ \E c \in SpecCodes, p \in Players : \E ch \in HostChans(p) :
          \/ WsOpen(c, p, ch)
          \/ HandleConnect(c, p, ch)
          \/ StartGameMsg(c, p, ch)
          \/ AnswerMsg(c, p, ch, "ok", FALSE)
          \/ PlayAgainMsg(c, p, ch)
          \/ Disconnect(c, p, ch)
          \/ ResumeSession(c, p, ch)
    \/ \E t \in DOMAIN tasks : Fire(t)
    \/ \E t \in DOMAIN tasks : ResumeTask(t)

SpecHost == Init /\ [][NextHost]_vars

\* Two rooms side by side, each with the one player "A" on one channel, who
\* registers, attaches, starts, answers in time and leaves.
RoomCodes == {"R1", "R2"}

NextRooms ==
    \/ \E c \in RoomCodes : CreateRoom(c)
    \/ \E c \in RoomCodes, p \in ConnPlayers : JoinRoom(c, p, "none")
    \/ \E c \in RoomCodes, p \in ConnPlayers :
          \/ WsOpen(c, p, OwnerChan)
          \/ HandleConnect(c, p, OwnerChan)
          \/ StartGameMsg(c, p, OwnerChan)
          \/ AnswerMsg(c, p, OwnerChan, "ok", FALSE)
          \/ Disconnect(c, p, OwnerChan)
          \/ ResumeSession(c, p, OwnerChan)
    \/ \E t \in DOMAIN tasks : Fire(t)
    \/ \E t \in DOMAIN tasks : ResumeTask(t)

SpecRooms == Init /\ [][NextRooms]_vars

\* The room store alone: rooms are created under every code and players
\* register in them.
NextStore ==
    \/ \E c \in Codes : CreateRoom(c)
    \/ \E c \in Codes, p \in Players, tok \in {"none", "stored", "forged"} :
          JoinRoom(c, p, tok)

SpecStore == Init /\ [][NextStore]_vars

\* One player who switches multiple choice on and off and picks a tier with
\* or without wrong answers before starting.
OptConfigs ==
    {[multipleChoiceEnabled |-> TRUE], [multipleChoiceEnabled |-> FALSE],
     [difficulty |-> "master"], [difficulty |-> "enjoyer"]}

NextOptions ==
    \/ \E c \in SpecCodes : CreateRoom(c)
    \/ \E c \in SpecCodes, p \in ConnPlayers : JoinRoom(c, p, "none")
    \/ \E c \in SpecCodes, p \in ConnPlayers :
          \/ WsOpen(c, p, OwnerChan)
          \/ HandleConnect(c, p, OwnerChan)
          \/ StartGameMsg(c, p, OwnerChan)
          \/ AnswerMsg(c, p, OwnerChan, "ok", FALSE)
          \/ \E config_data \in OptConfigs :
                UpdateConfigMsg(c, p, OwnerChan, config_data)
          \/ PlayAgainMsg(c, p, OwnerChan)
          \/ Disconnect(c, p, OwnerChan)
          \/ ResumeSession(c, p, OwnerChan)
    \/ \E t \in DOMAIN tasks : Fire(t)
    \/ \E t \in DOMAIN tasks : ResumeTask(t)

SpecOptions == Init /\ [][NextOptions]_vars

\* the event loop runs every coroutine that can run: a sleep that is over
\* fires its callback, a send that a callback or a channel handler is
\* suspended at returns, and so does `await ws.accept()`
Fairness ==
    /\ WF_vars(\E t \in DOMAIN tasks : Fire(t))
    /\ WF_vars(\E t \in DOMAIN tasks : ResumeTask(t))
    /\ WF_vars(\E c \in SpecCodes, p \in Players, ch \in SpecChans :
                  ResumeSession(c, p, ch))
    /\ WF_vars(\E c \in SpecCodes, p \in Players, ch \in SpecChans :
                  HandleConnect(c, p, ch))

\* One room and two players on one channel each, who register, attach, leave
\* and come back at any time; the host starts games from the lobby and asks
\* to play again.
NextLive ==
    \/ \E c \in SpecCodes : CreateRoom(c)
    \/ \E c \in SpecCodes, p \in Players : FirstJoins(c, p) /\ JoinRoom(c, p, "none")
    \/ \E c \in SpecCodes, p \in Players, ch \in SpecChans :
          \/ WsOpen(c, p, ch)
          \/ HandleConnect(c, p, ch)
          \/ rooms[c].status = "waiting" /\ StartGameMsg(c, p, ch)
          \/ PlayAgainMsg(c, p, ch)
          \/ Disconnect(c, p, ch)
          \/ ResumeSession(c, p, ch)
    \/ \E t \in DOMAIN tasks : Fire(t)
    \/ \E t \in DOMAIN tasks : ResumeTask(t)

SpecLive == Init /\ [][NextLive]_vars /\ Fairness

\* ------------------------------------------------------------------ claims
Status(c) == rooms[c].status

\* the tasks of class cls and code c in tk that can still run
LiveTasks(tk, cls, c) ==
    {t \in DOMAIN tk : t[1] = cls /\ t[2] = c /\ Live(tk[t])}

\* the dict of class cls holds a task for code c that is asleep
Asleep(tm, tk, cls, c) ==
    /\ tm[cls][c] # 0
    /\ tk[<<cls, c, tm[cls][c]>>].pc = "sleeping"

\* an answer is recorded for playing room c in this step, and with it every
\* registered player has answered
AllAnswered(c) ==
    /\ Status(c) = "playing"
    /\ rooms'[c].status # "deleted"
    /\ rooms'[c].current_round.answered_players
          # rooms[c].current_round.answered_players
    /\ rooms'[c].current_round.answered_players # {}
    /\ AllPlayersAnswered(rooms'[c])

C1_AnswerStep ==
    \A c \in Codes :
        AllAnswered(c) =>
            /\ rooms'[c].status = "results"
            /\ timers'.question[c] = 0
            /\ LiveTasks(tasks', "question", c) = {}
            /\ Asleep(timers', tasks', "results", c)
            /\ LiveTasks(tasks', "results", c) = {<<"results", c, timers'.results[c]>>}

C1_OneTransition ==
    \A c \in Codes :
        (\/ Asleep(timers', tasks', "results", c) /\ ~Asleep(timers, tasks, "results", c)
         \/ rooms'[c].status = "results" /\ Status(c) # "results")
        => /\ Status(c) = "playing"
           /\ rooms'[c].status = "results"
           /\ Asleep(timers', tasks', "results", c)

\* C1: the handling of the answer that makes every registered player answered
\* leaves status = results, no question task of the room that can still run
\* and one sleeping results task; a results task comes to be asleep only in a
\* step that takes the room from playing to results, and every such step
\* leaves one asleep, so a round has one results transition and one results
\* timer.
C1_Theorem == [][C1_AnswerStep /\ C1_OneTransition]_vars

C1_Witness ==
    \E c \in Codes :
        /\ Status(c) = "results"
        /\ rooms[c].players = {"A", "B"}
        /\ rooms[c].current_round.answered_players = rooms[c].players
        /\ timers.question[c] = 0
        /\ timers.results[c] # 0
        /\ tasks[<<"results", c, timers.results[c]>>].pc = "sleeping"

\* an operation on room c is suspended at a send of its broadcast
Busy(c) ==
    \/ \E p \in Players, ch \in Chans : sessions[<<c, p, ch>>].pc \in SendPcs
    \/ \E t \in DOMAIN tasks : t[2] = c /\ tasks[t].pc \in {"sending", "closing"}

\* an orchestrator operation on room c begins in this step
OpBegins(c) ==
    \/ \E p \in Players, ch \in Chans :
          \/ HandleConnect(c, p, ch)
          \/ WsOpen(c, p, ch) /\ rooms' # rooms
          \/ StartGameMsg(c, p, ch)
          \/ \E answer \in Answers, late \in BOOLEAN :
                AnswerMsg(c, p, ch, answer, late)
          \/ \E config_data \in SpecConfigs : UpdateConfigMsg(c, p, ch, config_data)
          \/ PlayAgainMsg(c, p, ch)
          \/ Disconnect(c, p, ch)
    \/ \E t \in DOMAIN tasks : t[2] = c /\ Fire(t)

\* C2: while an operation on a room is suspended at a broadcast send, no
\* other operation on that room (connect, player action, disconnect, timer
\* callback) begins and changes the state.
C2_Serialized == [][\A c \in Codes : Busy(c) => ~OpBegins(c)]_vars

C3_Step ==
    \A c \in Codes :
        (/\ Exists(c)
         /\ DOMAIN rooms[c].connections # {}
         /\ DOMAIN rooms'[c].connections = {})
        => /\ rooms'[c].status = "deleted"
           /\ \A k \in Classes : timers'[k][c] = 0
           /\ \A k \in Classes : LiveTasks(tasks', k, c) = {}

\* C3: a step that detaches the last attached channel of a room leaves the
\* room out of the store and no question, results or game-over task of its
\* code able to run, whoever is still registered.
C3_Theorem == [][C3_Step]_vars

\* the room was deleted by a disconnect (close_room keeps the channels it
\* notified) while a registered player's new channel was being accepted
C3_Witness ==
    \E c \in Codes, p \in Players, ch \in Chans :
        /\ rooms[c] = NoRoom(EmptyFn)
        /\ sessions[<<c, p, ch>>].pc = "accepting"
        /\ \A k \in Classes : timers[k][c] = 0

\* a start request is handled for a room that is not waiting (see C9)
Restart(c) ==
    /\ Status(c) \notin {"waiting", "deleted"}
    /\ \E p \in Players, ch \in Chans : StartGameMsg(c, p, ch)

\* C4: a timer callback suspended at a send of its broadcast either stays
\* suspended or resumes and runs to its end (follow-up timer included); no
\* step of another operation ends it there.  Steps that delete the room, and
\* start requests handled outside waiting, are left aside: the callbacks they
\* end have nothing left to do for the game.
C4_AllOrNothing ==
    [][\A t \in DOMAIN tasks :
          (/\ tasks[t].pc \in {"sending", "closing"}
           /\ rooms'[t[2]].status # "deleted"
           /\ ~Restart(t[2])) =>
              \/ t \in DOMAIN tasks' /\ tasks'[t] = tasks[t]
              \/ ResumeTask(t)]_vars

C5_Step ==
    /\ \A t \in DOMAIN tasks :
          (/\ tasks[t].pc = "sleeping"
           /\ timers'[t[1]][t[2]] # t[3]
           /\ ~Fire(t))
          => (t \notin DOMAIN tasks' \/ ~Live(tasks'[t]))
    /\ \A t \in DOMAIN tasks' :
          tasks'[t].pc = "sleeping" => timers'[t[1]][t[2]] = t[3]

\* C5: a task that is asleep when its entry leaves the timer service's dict
\* (cancel_all_timers_for_room, or a new timer of its class) cannot run
\* afterwards: no task is asleep unless its dict holds it, and only a task
\* asleep calls its callback.
C5_Theorem == [][C5_Step]_vars

C5_Witness ==
    \E c \in Codes :
        /\ Status(c) = "results"
        /\ rooms[c].players = {"A"}
        /\ rooms[c].current_round.answered_players = {"A"}
        /\ timers.question[c] = 0
        /\ \A p \in Players, ch \in Chans : sessions[<<c, p, ch>>].pc \in {"idle", "none"}

\* C6: a room code has at most one task of each class that can still run,
\* and start_question_timer, start_results_timer or start_game_over_timer
\* called in any reachable state leaves the new task the only one of its
\* class and code that can run (the earlier one is cancelled) and the
\* entries and tasks of the other classes and codes as they were.
C6_Theorem ==
    /\ \A c \in Codes, k \in Classes : Cardinality(LiveTasks(tasks, k, c)) <= 1
    /\ \A c \in Codes, k \in Classes :
          LET ts2 == StartTimer(TS, k, c) IN
          /\ LiveTasks(ts2.tasks, k, c) = {<<k, c, ts2.timers[k][c]>>}
          /\ ts2.tasks[<<k, c, ts2.timers[k][c]>>].pc = "sleeping"
          /\ {t \in DOMAIN ts2.tasks : t[1] = k /\ t[2] = c}
                = {<<k, c, ts2.timers[k][c]>>}
          /\ \A j \in Classes, d \in Codes :
                (j # k \/ d # c) => ts2.timers[j][d] = timers[j][d]
          /\ \A t \in DOMAIN tasks :
                (t[1] # k \/ t[2] # c) => ts2.tasks[t] = tasks[t]

\* a question timer asleep was replaced: the room has not been in results
\* since it was created (its results dict is empty), so its first question
\* task never ran, and start_game ran again after an answer was recorded
C6_Witness ==
    \E c \in Codes :
        /\ Status(c) = "playing"
        /\ timers.results[c] = 0
        /\ timers.game_over[c] = 0
        /\ rooms[c].current_round.answered_players = {}
        /\ rooms[c].current_round.question_points # EmptyFn
        /\ Asleep(timers, tasks, "question", c)

\* the precondition of the callback of task t does not hold
Stale(t) ==
    \/ t[1] = "question" /\ Status(t[2]) # "playing"
    \/ t[1] = "results" /\ Status(t[2]) # "results"

C7_Step ==
    \A t \in DOMAIN tasks :
        (tasks[t].pc = "sleeping" /\ Stale(t) /\ Fire(t)) =>
            /\ rooms' = rooms
            /\ sessions' = sessions
            /\ timers' = timers
            /\ DOMAIN tasks' = DOMAIN tasks
            /\ \A u \in DOMAIN tasks : u # t => tasks'[u] = tasks[u]
            /\ tasks'[t].pc = "done"
            /\ t[1] = "question" => ~OnQuestionTimeout(rooms, TS, t[2]).bcast
            /\ t[1] = "results" => ~OnResultsTimeout(rooms, TS, t[2]).bcast

\* C7: the callback of a question task that runs when the room is missing or
\* not playing, and of a results task that runs when the room is missing or
\* not in results, ends at once: the store, the channels' handlers and the
\* timer dicts are as before, no task is created and nothing is broadcast.
C7_Theorem == [][C7_Step]_vars

\* a question task ran its callback after the room was deleted (deleting a
\* room empties the dicts, so this task was stored afterwards)
C7_Witness ==
    \E c \in Codes :
        /\ ~Exists(c)
        /\ timers.question[c] # 0
        /\ tasks[<<"question", c, timers.question[c]>>].pc = "done"

Edges ==
    {<<"waiting", "playing">>, <<"playing", "results">>, <<"results", "playing">>,
     <<"results", "finished">>, <<"finished", "waiting">>}

\* C8: every change of the status of a room follows one of the edges
\* waiting->playing, playing->results, results->playing, results->finished,
\* finished->waiting.
C8_Edges ==
    [][\A c \in Codes :
          (Exists(c) /\ rooms'[c].status \notin {"deleted", Status(c)})
          => <<Status(c), rooms'[c].status>> \in Edges]_vars

\* C9: a start request of a player who is not the host, or that arrives when
\* the room is not waiting, changes neither the room nor the timers and
\* broadcasts nothing.
C9_StartRejected ==
    [][\A c \in Codes, p \in Players, ch \in Chans :
          (/\ StartGameMsg(c, p, ch)
           /\ Exists(c)
           /\ ~(p = rooms[c].host_id /\ Status(c) = "waiting"))
          => /\ rooms'[c] = rooms[c]
             /\ timers' = timers
             /\ tasks' = tasks
             /\ ~HandleStartGame(rooms, TS, c, p).bcast]_vars

Started(rm, c) == rm[c].status \in {"playing", "results", "finished"}

C10_Step ==
    /\ \A c \in Codes :
          Started(rooms', c) =>
              /\ rooms'[c].question_index <= Len(rooms'[c].questions)
              /\ (rooms'[c].question_index = Len(rooms'[c].questions))
                    <=> (rooms'[c].status = "finished")
    /\ \A t \in DOMAIN tasks :
          (t[1] = "results" /\ Status(t[2]) = "results" /\ Fire(t)) =>
              /\ rooms'[t[2]].question_index = rooms[t[2]].question_index + 1
              /\ rooms'[t[2]].questions = rooms[t[2]].questions
              /\ rooms'[t[2]].status \in {"playing", "finished"}

\* C10: in a started game question_index counts the advances of the results
\* timer; it never exceeds the number N of loaded questions, and it equals N
\* exactly when status is finished (so status is playing or results after
\* fewer than N advances, and finished at the N-th).
C10_Theorem == [][C10_Step]_vars

C10_Witness ==
    \E c \in Codes :
        /\ Status(c) = "finished"
        /\ Len(rooms[c].questions) = NumQuestions
        /\ rooms[c].question_index = NumQuestions
        /\ timers.game_over[c] # 0

Round(c) == rooms[c].current_round

C11_Step ==
    \A c \in Codes :
        /\ rooms'[c].status # "deleted" =>
              \A p \in rooms'[c].current_round.answered_players,
                 answer \in Answers, late \in BOOLEAN :
                  /\ ProcessAnswer(rooms'[c], p, answer, late) = rooms'[c]
                  /\ ~ProcessAnswerReturns(rooms'[c], p, answer)
        /\ (Exists(c) /\ rooms'[c].status # "deleted") =>
              \A p \in Round(c).answered_players
                         \cap rooms'[c].current_round.answered_players :
                  /\ p \in DOMAIN rooms[c].scores =>
                        /\ p \in DOMAIN rooms'[c].scores
                        /\ rooms'[c].scores[p] = rooms[c].scores[p]
                  /\ p \in DOMAIN Round(c).question_points =>
                        /\ p \in DOMAIN rooms'[c].current_round.question_points
                        /\ rooms'[c].current_round.question_points[p]
                              = Round(c).question_points[p]
                  /\ rooms'[c].current_round.player_answers[p]
                        = Round(c).player_answers[p]
                  /\ (p \in rooms'[c].current_round.correct_players)
                        <=> (p \in Round(c).correct_players)

\* C11: process_answer for a player who is in answered_players returns False
\* and returns the room as it was, and no step that leaves the player in
\* answered_players changes the player's score, round points, submitted text
\* or membership in correct_players.
C11_Theorem == [][C11_Step]_vars

\* player A was credited for a correct answer in a round that is still open
\* and A's channel can send another answer
C11_Witness ==
    \E c \in Codes, ch \in Chans :
        /\ Status(c) = "playing"
        /\ Round(c).answered_players = {"A"}
        /\ Round(c).question_points = [q \in {"A"} |-> MAX_SCORE_PER_QUESTION]
        /\ rooms[c].scores["A"] = MAX_SCORE_PER_QUESTION
        /\ sessions[<<c, "A", ch>>].pc = "idle"

\* the players whose correct answer of this round was given in time
OnTime(rd) ==
    {q \in rd.answered_players \cap rd.correct_players
         \cap DOMAIN rd.question_points : rd.question_points[q] # 0}

\* a correct answer of this round came after the question time
LateCorrect(rd) ==
    \E q \in rd.answered_players \cap DOMAIN rd.question_points :
        IsCorrect(rd.player_answers[q]) /\ rd.question_points[q] = 0

\* C12: in a round in which k players answered correctly in time (and none
\* correctly too late), the next correct answer in time adds
\* MAX_SCORE_PER_QUESTION \div 2^k to the player's score and records it as the
\* player's round points, whatever incorrect answers were given.
C12_Positional ==
    \A c \in Codes :
        Status(c) = "playing" =>
            \A p \in (rooms[c].players \cap DOMAIN rooms[c].scores)
                        \ Round(c).answered_players :
                LET k == Cardinality(OnTime(Round(c)))
                    r2 == ProcessAnswer(rooms[c], p, "ok", FALSE)
                IN (~LateCorrect(Round(c))
                    /\ ~AnswerRaises(rooms[c], p, "ok", FALSE)) =>
                      /\ r2.scores[p] = rooms[c].scores[p]
                            + MAX_SCORE_PER_QUESTION \div Pow2(k)
                      /\ r2.current_round.question_points[p]
                            = MAX_SCORE_PER_QUESTION \div Pow2(k)

\* C13: a correct answer processed after the question time leaves every score
\* as it was and records 0 round points for the player, however many correct
\* answers the round already has.
C13_Theorem ==
    \A c \in Codes :
        Status(c) = "playing" =>
            \A p \in rooms[c].players \ Round(c).answered_players :
                LET r2 == ProcessAnswer(rooms[c], p, "ok", TRUE) IN
                ~AnswerRaises(rooms[c], p, "ok", TRUE) =>
                    /\ r2.scores = rooms[c].scores
                    /\ r2.current_round.question_points[p] = 0
                    /\ p \in r2.current_round.correct_players
                    /\ r2.current_round.answered_players
                          = Round(c).answered_players \cup {p}

\* B's correct answer came too late, after A's correct answer in time
C13_Witness ==
    \E c \in Codes :
        /\ Status(c) = "results"
        /\ Round(c).player_answers = [q \in {"A", "B"} |-> "ok"]
        /\ Round(c).question_points["A"] = MAX_SCORE_PER_QUESTION
        /\ Round(c).question_points["B"] = 0
        /\ rooms[c].scores = [q \in {"A", "B"} |->
                                IF q = "A" THEN MAX_SCORE_PER_QUESTION ELSE 0]

\* C14: an entry of connections is never overwritten while it is present:
\* as long as a player stays attached, the channel of the entry is the same.
C14_NoOverwrite ==
    [][\A c \in Codes, p \in Players :
          (/\ Exists(c)
           /\ rooms'[c].status # "deleted"
           /\ p \in DOMAIN rooms[c].connections
           /\ p \in DOMAIN rooms'[c].connections)
          => rooms'[c].connections[p] = rooms[c].connections[p]]_vars

\* C15: the channel of a party that was never issued the secret of a
\* registered identity and never presented it is not attached to that
\* identity.
C15_NoHijack ==
    \A c \in Codes :
        Exists(c) =>
            \A p \in DOMAIN rooms[c].connections \cap DOMAIN rooms[c].session_tokens :
                rooms[c].connections[p] # StrangerChan

\* C16: handle_disconnect of a player that leaves a channel attached returns
\* the room with that player's entry removed from connections and nothing
\* else changed (players, scores, status, question_index, questions, round,
\* tokens), leaves the timers alone, and leaves the player registered and
\* without a channel, which is what a new connection attempt requires.
C16_Theorem ==
    \A c \in Codes, p \in Players :
        LET out == HandleDisconnect(rooms, TS, c, p) IN
        (Exists(c) /\ out.rooms[c].status # "deleted") =>
            /\ out.rooms = [rooms EXCEPT ![c].connections =
                              Restrict(@, (DOMAIN @) \ {p})]
            /\ out.ts = TS
            /\ p \in rooms[c].players => /\ p \in out.rooms[c].players
                                         /\ p \notin DOMAIN out.rooms[c].connections
                                         /\ out.rooms[c].scores[p] = rooms[c].scores[p]

\* B answered in this round, scored, and has no channel now; A is attached
C16_Witness ==
    \E c \in Codes :
        /\ Status(c) = "playing"
        /\ DOMAIN rooms[c].connections = {"A"}
        /\ "B" \in Round(c).answered_players
        /\ rooms[c].scores["B"] = MAX_SCORE_PER_QUESTION

\* C17: a broadcast in which the send to some channels fails delivers to all
\* the other attached channels, raises nothing, and leaves the failing
\* channels out of connections; with no channel attached it does nothing.
C17_Pruned ==
    \A c \in Codes :
        Exists(c) =>
            \A failing \in SUBSET DOMAIN rooms[c].connections :
                LET b == Broadcast(rooms[c], failing) IN
                /\ ~b.raised
                /\ b.delivered = (DOMAIN rooms[c].connections) \ failing
                /\ DOMAIN b.room.connections = (DOMAIN rooms[c].connections) \ failing
                /\ b.room = [rooms[c] EXCEPT !.connections = b.room.connections]

\* a handler broadcasts exactly when it accepts the event
BroadcastsWhenAccepted(out) == out.bcast <=> (out.ok /\ ~out.raised)

\* what every handler but handle_answer and handle_connect does
C18_Handlers ==
    \A c \in Codes, p \in Players :
        /\ BroadcastsWhenAccepted(HandleStartGame(rooms, TS, c, p))
        /\ \A config_data \in SpecConfigs :
              BroadcastsWhenAccepted(HandleConfigUpdate(rooms, TS, c, p, config_data))
        /\ BroadcastsWhenAccepted(HandlePlayAgain(rooms, TS, c, p))
        /\ LET out == HandleDisconnect(rooms, TS, c, p) IN
           out.bcast <=> (Exists(c) /\ out.rooms[c].status # "deleted")
        /\ BroadcastsWhenAccepted(OnQuestionTimeout(rooms, TS, c))
        /\ BroadcastsWhenAccepted(OnResultsTimeout(rooms, TS, c))

\* handle_connect that attaches the channel goes on to its broadcast
C18_Connect ==
    \A c \in Codes, p \in Players, ch \in Chans :
        (/\ sessions[<<c, p, ch>>].pc = "accepting"
         /\ sessions'[<<c, p, ch>>].pc # "accepting"
         /\ rooms' # rooms)
        => /\ sessions'[<<c, p, ch>>].pc = "connect_send"
           /\ sessions'[<<c, p, ch>>].size0 >= 1

\* handle_answer broadcasts when the answer completes the round, and only then
C18_Answers ==
    \A c \in Codes, p \in Players, answer \in Answers, late \in BOOLEAN :
        LET out == HandleAnswer(rooms, TS, c, p, answer, late) IN
        out.bcast <=> (/\ Status(c) = "playing"
                       /\ ~out.raised
                       /\ out.rooms[c].status = "results")

\* C18 (as the code has it): an accepted connect, start, config update, play
\* again, question or results timeout and a disconnect that leaves a channel
\* attached make one ROOM_STATE broadcast, and a rejected one makes none; an
\* accepted answer makes one when it completes the round and none otherwise.
C18_Theorem == [](C18_Handlers /\ C18_Answers) /\ [][C18_Connect]_vars

\* C18 (as stated): an answer that is accepted and changes the room is
\* followed by a ROOM_STATE broadcast.
C18_Original ==
    \A c \in Codes, p \in Players, answer \in Answers, late \in BOOLEAN :
        LET out == HandleAnswer(rooms, TS, c, p, answer, late) IN
        (out.rooms # rooms /\ ~out.raised) => out.bcast

\* A's answer was recorded, B has not answered, and no broadcast is under way
C18_Witness ==
    \E c \in Codes :
        /\ Status(c) = "playing"
        /\ rooms[c].players = {"A", "B"}
        /\ Round(c).answered_players = {"A"}
        /\ \A s \in DOMAIN sessions : sessions[s].pc \in {"idle", "none"}
        /\ \A t \in DOMAIN tasks : tasks[t].pc \notin {"sending", "closing"}

C19_Step ==
    \A t \in DOMAIN tasks :
        /\ (t[1] = "game_over" /\ tasks[t].pc = "sleeping" /\ Fire(t)) =>
              IF Exists(t[2])
              THEN \/ /\ rooms'[t[2]].status = "deleted"
                      /\ \A k \in Classes : timers'[k][t[2]] = 0
                      /\ \A k \in Classes : LiveTasks(tasks', k, t[2]) = {}
                   \/ /\ tasks'[t].pc = "closing"
                      /\ tasks'[t].size0 = Size(t[2], rooms)
                      /\ rooms' = rooms
                      /\ timers' = timers
              ELSE /\ rooms' = rooms
                   /\ timers' = timers
                   /\ sessions' = sessions
                   /\ \A u \in DOMAIN tasks' : u # t => tasks'[u] = tasks[u]
                   /\ LiveTasks(tasks', "game_over", t[2]) = {}
        /\ (t[1] = "game_over" /\ tasks[t].pc = "closing" /\ ResumeTask(t)) =>
              /\ rooms'[t[2]].status = "deleted"
              /\ \A k \in Classes : timers'[k][t[2]] = 0
              /\ \A k \in Classes : LiveTasks(tasks', k, t[2]) = {}

\* a game-over callback suspended at a ROOM_CLOSED send stays suspended or
\* resumes, unless the step removes the room itself
C19_Uninterrupted ==
    \A t \in DOMAIN tasks :
        (/\ t[1] = "game_over"
         /\ tasks[t].pc = "closing"
         /\ rooms'[t[2]].status # "deleted") =>
            \/ t \in DOMAIN tasks' /\ tasks'[t] = tasks[t]
            \/ ResumeTask(t)

\* C19: the callback of a game-over task that runs while the room exists
\* sends ROOM_CLOSED to the channels attached at that moment and, once the
\* sends are over, leaves no timer entry and no task of the room able to run
\* and the room out of the store; nothing ends the callback between the sends
\* and the removal; when the room is gone the callback changes nothing.
C19_Closes == [][C19_Step /\ C19_Uninterrupted]_vars

C20_Step ==
    \A c \in Codes :
        (Status(c) = "finished" /\ rooms'[c].status = "waiting") =>
            LET keep == rooms[c].players \cap DOMAIN rooms[c].connections IN
            /\ rooms'[c].question_index = 0
            /\ rooms'[c].questions = << >>
            /\ rooms'[c].players = keep
            /\ rooms'[c].scores = [q \in keep |-> 0]
            /\ rooms'[c].current_round = RoundState
            /\ rooms'[c].config = rooms[c].config
            /\ rooms'[c].connections = rooms[c].connections

C21_Theorem ==
    \A c \in Codes, p \in Players :
        LET out == HandlePlayAgain(rooms, TS, c, p)
            allowed == /\ Exists(c)
                       /\ p = rooms[c].host_id
                       /\ Status(c) = "finished"
        IN /\ ~out.raised
           /\ out.ok <=> allowed
           /\ allowed => /\ out.rooms[c].status = "waiting"
                          /\ out.bcast
                          /\ \A d \in Codes \ {c} : out.rooms[d] = rooms[d]
           /\ ~allowed => /\ out.rooms = rooms
                           /\ out.ts = TS
                           /\ ~out.bcast

\* the host reset a finished room (the game-over timer of the finished game
\* is still there) while the other player, who could have asked for the
\* same, was attached
C21_Witness ==
    \E c \in Codes :
        /\ Status(c) = "waiting"
        /\ rooms[c].questions = << >>
        /\ timers.game_over[c] # 0
        /\ rooms[c].host_id = "A"
        /\ DOMAIN rooms[c].connections = {"A", "B"}
        /\ \A p \in Players, ch \in Chans : sessions[<<c, p, ch>>].pc \in {"idle", "none"}

\* the config dicts of the UPDATE_CONFIG messages looked at by C22
C22_Configs ==
    SpecConfigs
    \cup {[multipleChoiceEnabled |-> b] : b \in BOOLEAN}
    \cup {[multipleChoiceEnabled |-> b, difficulty |-> d] :
            b \in BOOLEAN, d \in {"master", "bogus"}}

\* C22: a config update by anybody but the host, or in a status other than
\* waiting, leaves the store and the timers as they are and broadcasts
\* nothing; one by the host of a waiting room changes nothing but the config,
\* sets each field the message carries, and leaves the difficulty as it was
\* when the message names no known tier.
C22_Theorem ==
    \A c \in Codes, p \in Players, config_data \in C22_Configs :
        LET out == HandleConfigUpdate(rooms, TS, c, p, config_data)
            allowed == /\ Exists(c)
                       /\ p = rooms[c].host_id
                       /\ Status(c) = "waiting"
            old == rooms[c].config
            new == out.rooms[c].config
        IN /\ ~out.raised
           /\ out.ts = TS
           /\ ~allowed => out.rooms = rooms /\ ~out.bcast
           /\ allowed =>
                /\ out.rooms = [rooms EXCEPT ![c].config = new]
                /\ new.difficulty =
                      IF "difficulty" \in DOMAIN config_data
                         /\ config_data.difficulty \in Difficulties
                      THEN config_data.difficulty ELSE old.difficulty
                /\ new.multiple_choice_enabled =
                      IF "multipleChoiceEnabled" \in DOMAIN config_data
                      THEN config_data.multipleChoiceEnabled
                      ELSE old.multiple_choice_enabled

\* the host changed the tier of a waiting room with both players registered
C22_Witness ==
    \E c \in Codes :
        /\ Status(c) = "waiting"
        /\ rooms[c].players = {"A", "B"}
        /\ rooms[c].host_id = "A"
        /\ rooms[c].config.difficulty = "beast"
        /\ Len(rooms[c].questions) = NumQuestions

C23_HostRegistered ==
    \A c \in Codes :
        Exists(c) =>
            /\ rooms[c].host_id # "none" => rooms[c].host_id \in rooms[c].players
            /\ rooms[c].players # {} => rooms[c].host_id # "none"

C23_Step ==
    \A c \in Codes :
        Exists(c) /\ rooms'[c].status # "deleted" =>
            /\ rooms[c].host_id # "none" => rooms'[c].host_id = rooms[c].host_id
            /\ rooms[c].host_id = "none" /\ rooms'[c].players # rooms[c].players
                  => rooms'[c].players = {rooms'[c].host_id}

HasOptions(room) ==
    /\ room.status = "playing"
    /\ room.question_index < Len(room.questions)
    /\ room.config.multiple_choice_enabled
    /\ Len(WrongAnswers(room.questions[room.question_index + 1])) > 0

\* room r as a build of its snapshot finds it: as it is now, or as a start
\* request of the host leaves it for its broadcast
C24_Rooms(r) ==
    IF r.status = "waiting" THEN {r, StartGame(LoadQuestionsByDifficulty(r))}
    ELSE {r}

C24_Build(r, b) ==
    LET cache == r.current_round.shuffled_options IN
    /\ b.room = [r EXCEPT !.current_round.shuffled_options =
                             b.room.current_round.shuffled_options]
    /\ ~HasOptions(r) => b.room = r /\ b.options = << >>
    /\ HasOptions(r) /\ cache = << >> =>
          /\ b.options # << >>
          /\ b.room.current_round.shuffled_options = b.options
    /\ HasOptions(r) /\ cache # << >> => b.room = r /\ b.options = cache
    /\ BuildRoomState(b.room) = {[room |-> b.room, options |-> b.options]}

\* C24: a build of the snapshot leaves every field of the room as it was,
\* except that in a playing round with multiple choice on and wrong answers
\* at hand the build that finds no cached order caches the order it shows;
\* a build that finds one shows it and changes nothing, and so does every
\* build after the first.
C24_Theorem ==
    \A c \in Codes :
        Exists(c) =>
            \A r \in C24_Rooms(rooms[c]) :
                \A b \in BuildRoomState(r) : C24_Build(r, b)

\* a round whose first snapshot cached an order of the first question's
\* four options
C24_Witness ==
    \E c \in Codes :
        /\ HasOptions(rooms[c])
        /\ rooms[c].question_index = 0
        /\ Len(rooms[c].current_round.shuffled_options) = NumWrongAnswers + 1
        /\ DOMAIN rooms[c].connections # {}

\* the options on show are an order of the current question's own answer
\* and wrong answers
C25_OwnOptions ==
    \A c \in Codes :
        Exists(c) /\ HasOptions(rooms[c]) =>
            LET q == rooms[c].questions[rooms[c].question_index + 1] IN
            \A b \in BuildRoomState(rooms[c]) :
                b.options \in Shuffle(<<Answer(q)>> \o WrongAnswers(q))

\* C25: start_game and advance_question leave the round without a cached
\* option order, so that the options shown for a question are an order of
\* that question's own answer and wrong answers, never the order cached for
\* an earlier question.
C25_Theorem ==
    /\ C25_OwnOptions
    /\ \A c \in Codes :
          Exists(c) =>
            /\ StartGame(rooms[c]).current_round.shuffled_options = << >>
            /\ AdvanceQuestion(rooms[c]).current_round.shuffled_options = << >>

\* C26: the code under which create stores a new room is the code of no room
\* in the store, so that no room is replaced, and the generation of the code
\* ends (within MaxAttempts draws and one more).
C26_Unique ==
    \A c \in GenerateUniqueRoomCode(rooms, MaxAttempts) : ~Exists(c)

\* C27: a text that is not JSON, fails validation or has an unknown type,
\* received on an attached channel whose ERROR send succeeds, raises nothing
\* in the handler of the channel, so that the channel stays attached and
\* its handler goes on to the next receive, and it changes no room and no
\* timer and broadcasts nothing.
C27_ErrorOnly ==
    \A c \in Codes, p \in Players, ch \in Chans, kind \in BadKinds :
        sessions[<<c, p, ch>>].pc = "idle" =>
            LET out == HandleBadText(rooms, TS, kind, FALSE) IN
            /\ ~out.raised
            /\ ~out.bcast
            /\ out.rooms = rooms
            /\ out.ts = TS

\* C28: in every reachable state the keys of scores are the registered
\* players of the room; a registration adds the player to both, with score
\* 0, and the reset that prunes players takes them out of both.
C28_Theorem ==
    \A c \in Codes :
        Exists(c) =>
            LET r == rooms[c] IN
            /\ DOMAIN r.scores = r.players
            /\ \A p \in Players \ r.players :
                  /\ RegisterPlayer(r, p).players = r.players \cup {p}
                  /\ RegisterPlayer(r, p).scores = Put(r.scores, p, 0)
            /\ DOMAIN ResetToLobby(r).scores = ResetToLobby(r).players
            /\ ResetToLobby(r).players = r.players \cap DOMAIN r.connections

\* player B was registered and, after a game, pruned by the reset of the room
C28_Witness ==
    \E c \in Codes :
        /\ Status(c) = "waiting"
        /\ rooms[c].players = {"A"}
        /\ DOMAIN rooms[c].scores = {"A"}
        /\ "B" \in DOMAIN rooms[c].session_tokens
        /\ timers.game_over[c] # 0

\* C29: in every reachable state the players recorded as correct in the
\* round are among those recorded as having answered, and these among the
\* registered players of the room: no answer is recorded for an identity
\* that is not registered.
C29_Theorem ==
    \A c \in Codes :
        Exists(c) =>
            /\ Round(c).correct_players \subseteq Round(c).answered_players
            /\ Round(c).answered_players \subseteq rooms[c].players
            /\ DOMAIN Round(c).player_answers \subseteq rooms[c].players

\* C30: in every reachable state question_index is at most the number of
\* questions of the room, and below it while the status is playing or
\* results, so that the current question exists.
C30_Theorem ==
    \A c \in Codes :
        Exists(c) =>
            /\ rooms[c].question_index <= Len(rooms[c].questions)
            /\ Status(c) \in {"playing", "results"} =>
                  rooms[c].question_index < Len(rooms[c].questions)

\* the last question of a game is on show after an advance
C30_Witness ==
    \E c \in Codes :
        /\ Status(c) = "playing"
        /\ Len(rooms[c].questions) = NumQuestions
        /\ rooms[c].question_index = NumQuestions - 1
        /\ rooms[c].question_index > 0
        /\ timers.question[c] # 0

\* C31: in every reachable state every player with an entry in connections
\* is registered in the room; an attach for a code without a room or for an
\* identity that is not registered returns False and changes nothing, and
\* the reset that prunes players leaves no entry of a pruned player.
C31_Theorem ==
    \A c \in Codes :
        /\ Exists(c) =>
              /\ DOMAIN rooms[c].connections \subseteq rooms[c].players
              /\ DOMAIN ResetToLobby(rooms[c]).connections
                    \subseteq ResetToLobby(rooms[c]).players
        /\ \A p \in Players, ch \in Chans :
              LET out == TryAttach(rooms, c, p, ch) IN
              IF Exists(c) /\ p \in rooms[c].players
              THEN out.ok /\ DOMAIN out.rooms[c].connections
                                = DOMAIN rooms[c].connections \cup {p}
              ELSE ~out.ok /\ out.rooms = rooms

\* the channel of a player is being accepted while the reset of the room
\* pruned the player: the attach that follows is refused
C31_Witness ==
    \E c \in Codes, p \in Players, ch \in Chans :
        /\ Exists(c)
        /\ sessions[<<c, p, ch>>].pc = "accepting"
        /\ p \notin rooms[c].players

\* what the program holds for room code c: the room, its keys in the three
\* timer dicts, its tasks and the handlers of its channels
Of(c, rm, tm, tk, se) ==
    [room |-> rm[c],
     timers |-> [k \in Classes |-> tm[k][c]],
     tasks |-> Restrict(tk, {t \in DOMAIN tk : t[2] = c}),
     sessions |-> Restrict(se, {x \in DOMAIN se : x[1] = c})]

Touched(c) ==
    Of(c, rooms', timers', tasks', sessions') # Of(c, rooms, timers, tasks, sessions)

\* C32: a step of the program (a player action, a connect, a disconnect, a
\* timer callback or its resumption) changes the room, the timers, the tasks
\* and the channel handlers of at most one room code.
C32_Theorem ==
    [][\A c, d \in Codes : Touched(c) /\ Touched(d) => c = d]_vars

\* both rooms are in a game with the results timer of one and the question
\* timer of the other outstanding
C32_Witness ==
    /\ Status("R1") = "results"
    /\ Status("R2") = "playing"
    /\ timers.results["R1"] # 0
    /\ timers.question["R2"] # 0
    /\ DOMAIN rooms["R1"].connections = {"A"}
    /\ DOMAIN rooms["R2"].connections = {"A"}

\* the class whose timer the status of a room calls for
TimerOf(status) ==
    CASE status = "playing" -> "question"
      [] status = "results" -> "results"
      [] status = "finished" -> "game_over"
      [] OTHER -> "none"

\* a timer of class cls is outstanding for code c: the dict holds a task
\* that has not ended
Outstanding(cls, c) ==
    /\ timers[cls][c] # 0
    /\ Live(tasks[<<cls, c, timers[cls][c]>>])

\* no channel handler of room c is inside an orchestrator operation or its
\* accept, and no timer callback of c is under way
Quiet(c) ==
    /\ ~Busy(c)
    /\ \A p \in Players, ch \in Chans : sessions[<<c, p, ch>>].pc # "accepting"

\* C33: whenever no orchestrator operation is in flight for an existing room,
\* a playing room has a question timer outstanding, a room in results has a
\* results timer outstanding, a finished room has a game-over timer
\* outstanding, and a waiting room has no timer of any class outstanding.
C33_Theorem ==
    \A c \in Codes :
        (Exists(c) /\ Quiet(c)) =>
            /\ Status(c) # "waiting" => Outstanding(TimerOf(Status(c)), c)
            /\ Status(c) = "waiting" => \A k \in Classes : ~Outstanding(k, c)

\* C34: under fair timer firing a room in playing or results eventually is
\* finished (or deleted, when its last channel leaves), and a finished room
\* eventually is waiting again or deleted: no room stays in playing, results
\* or finished forever, whatever connects or disconnects while a timer
\* callback is broadcasting.
C34_Theorem ==
    \A c \in SpecCodes :
        /\ (Status(c) \in {"playing", "results"})
              ~> (Status(c) \in {"finished", "deleted"})
        /\ (Status(c) = "finished") ~> (Status(c) \in {"waiting", "deleted"})

\* A game-over timer is scheduled when a game finishes.  With START_GAME sent
\* from the lobby only, a room leaves finished by an accepted PLAY_AGAIN and
\* in no other way, so a game-over task whose sleep ends while the room is
\* waiting, playing or in results was scheduled for a game before the reset.
C35_Step ==
    \A t \in DOMAIN tasks :
        (t[1] = "game_over" /\ Exists(t[2]) /\ Fire(t)) =>
            Status(t[2]) = "finished"

Unscheduled(c) ==
    \/ \E p \in Players, ch \in Chans : sessions[<<c, p, ch>>].pc = "start_send"
    \/ \E t \in DOMAIN tasks :
          t[1] = "results" /\ t[2] = c /\ tasks[t].pc = "sending" /\ tasks[t].has_next

\* A question callback that moves the room to results runs on the timer of
\* the round it ends.  Scheduling a question timer cancels the one before it,
\* so a question task asleep once the timer of the round is scheduled is that
\* timer; one asleep before that was scheduled for an earlier round.
C36_Step ==
    \A t \in DOMAIN tasks :
        (t[1] = "question" /\ Fire(t) /\ rooms' # rooms) => ~Unscheduled(t[2])

\* C36: a question timer scheduled for one round that fires after that round
\* has ended never changes the room; it does not move a later round from
\* playing to results before the timer of that round expires or all players
\* have answered.
C36_Theorem == [][C36_Step]_vars

\* C37: in every reachable state no timer of any class is outstanding for a
\* room code that is not in the store.
C37_Theorem ==
    \A c \in Codes : ~Exists(c) => \A k \in Classes : ~Outstanding(k, c)

\* C38: right after an accepted start the room is playing at question 0,
\* every score is 0 and the round is fresh (answered, answers, correct and
\* points all empty), so that the first correct answer of the new game is
\* scored with no correct answer before it.
C38_Theorem ==
    \A c \in Codes, p \in Players :
        LET out == HandleStartGame(rooms, TS, c, p)
            r == out.rooms[c]
        IN out.ok =>
              /\ r.status = "playing"
              /\ r.question_index = 0
              /\ \A q \in DOMAIN r.scores : r.scores[q] = 0
              /\ r.current_round.answered_players = {}
              /\ r.current_round.player_answers = EmptyFn
              /\ r.current_round.correct_players = {}
              /\ r.current_round.question_points = EmptyFn
              /\ \A q \in r.players :
                    ProcessAnswer(r, q, "ok", FALSE).scores[q] = CalculateScore(0)

\* C39: an answer received while the room is waiting, in results or finished
\* changes nothing: handle_answer returns with the store (scores, round,
\* status) and the timers as they were, broadcasts nothing and raises
\* nothing.
C39_Theorem ==
    \A c \in Codes, p \in Players, answer \in Answers, late \in BOOLEAN :
        (Exists(c) /\ Status(c) # "playing") =>
            HandleAnswer(rooms, TS, c, p, answer, late)
                = Outcome(rooms, TS, FALSE, FALSE)

\* a room in results with its results timer asleep and an attached player
\* who has not answered the question and whose handler can receive an answer
C39_Witness ==
    \E c \in Codes, p \in Players, ch \in Chans :
        /\ Status(c) = "results"
        /\ Asleep(timers, tasks, "results", c)
        /\ sessions[<<c, p, ch>>].pc = "idle"
        /\ p \in DOMAIN rooms[c].connections
        /\ p \notin Round(c).answered_players

C40_Step ==
    \A c \in Codes :
        Started(rooms, c) =>
            \/ Status(c)' \in {"waiting", "deleted"}
            \/ rooms'[c].players = rooms[c].players

\* C40: while a room is playing, in results or finished no new identity is
\* registered: the set of players is the same from an accepted start until
\* the room is reset to the lobby or deleted.
C40_Theorem == [][C40_Step]_vars

\* a game is under way with one registered player, and a second name, which
\* join_room turns away, is not registered
C40_Witness ==
    \E c \in Codes :
        /\ Status(c) = "results"
        /\ rooms[c].players = {"A"}
        /\ DOMAIN rooms[c].connections = {"A"}
        /\ rooms[c].scores["A"] > 0

====
